---- MODULE Spec2Model ----
(***************************************************************************)
(* Model of src/data_collection.py (class FPLDataCollection): the change   *)
(* detector check_for_updates, the orchestrator sync_database and the      *)
(* constructor __init__.                                                   *)
(*                                                                         *)
(* A DataFrame is a record [columns, rows]: a set of column names and a    *)
(* sequence of rows, each row a function from the column names to cells.   *)
(* The Persisted Store (./data/fpl_data.db) maps every table name to an    *)
(* entry that is absent, a readable table, or a table whose read raises.   *)
(* The code is single threaded and every call is blocking, so each public  *)
(* method is one action that runs the whole method body.                   *)
(*                                                                         *)
(* In the source the helpers _make_request, _get_current_gameweek and      *)
(* get_fpl_data (lines 19-49) are indented under __init__: they are local  *)
(* functions of __init__, not attributes of the class.  self_has_helpers   *)
(* records whether the receiver of a call resolves self.get_fpl_data (an   *)
(* object that supplies lines 19-49 as methods) or is an instance of the   *)
(* class exactly as written, on which the lookup raises AttributeError.    *)
(***************************************************************************)
EXTENDS Integers, Sequences, FiniteSets, TLC

\* Largest number of rows of a table.
MaxRows == 2

VARIABLES remote, store, self_has_helpers, last

vars == <<remote, store, self_has_helpers, last>>

-----------------------------------------------------------------------------
(* Tables *)

\* The keys of the dict get_fpl_data returns, in insertion order.
TableOrder ==
    <<"chips", "months", "football_players", "football_teams",
      "game_weeks", "element_types", "element_stats">>

TableNames == {TableOrder[i] : i \in 1..Len(TableOrder)}

\* Row ids: a table of n rows published by the remote source has ids 1..n.
Ids == 1..MaxRows
PointVals == {0, 1}

SeqsUpTo(S, n) == UNION {[1..k -> S] : k \in 0..n}

\* Frames of game_weeks: the columns _get_current_gameweek reads.
GameWeekFrames ==
    {[columns |-> {"id", "is_current"}, rows |-> r] :
        r \in SeqsUpTo([id : Ids, is_current : BOOLEAN], MaxRows)}

\* Frames with the column check_for_updates reads for football_players.
PointFrames ==
    {[columns |-> {"id", "total_points"}, rows |-> r] :
        r \in SeqsUpTo([id : Ids, total_points : PointVals], MaxRows)}

\* Frames that lack the total_points column.
IdFrames ==
    {[columns |-> {"id"}, rows |-> r] : r \in SeqsUpTo([id : Ids], MaxRows)}

Frames(t) ==
    IF t = "game_weeks" THEN GameWeekFrames
    ELSE IF t = "football_players" THEN PointFrames \cup IdFrames
    ELSE PointFrames

EmptyFrame == [columns |-> {}, rows |-> <<>>]

AbsentEntry == [kind |-> "absent", df |-> EmptyFrame]
MalformedEntry == [kind |-> "malformed", df |-> EmptyFrame]
TableEntry(df) == [kind |-> "table", df |-> df]

StoreEntries(t) == {AbsentEntry, MalformedEntry} \cup {TableEntry(df) : df \in Frames(t)}

\* The remote data a season starts from: one row per table.
Baseline(t) ==
    IF t = "game_weeks"
    THEN [columns |-> {"id", "is_current"}, rows |-> <<[id |-> 1, is_current |-> TRUE]>>]
    ELSE [columns |-> {"id", "total_points"}, rows |-> <<[id |-> 1, total_points |-> 0]>>]

-----------------------------------------------------------------------------
(* Python values *)

EmptyDict == [t \in {} |-> TRUE]

\* dict.get(key, default)
Get(d, k, default) == IF k \in DOMAIN d THEN d[k] ELSE default

\* dict.keys() of a dict built in TableOrder
Keys(d) == SelectSeq(TableOrder, LAMBDA t : t \in DOMAIN d)

Range(s) == {s[i] : i \in 1..Len(s)}

\* None, as the result of a fetch
None == [ok |-> FALSE, tables |-> EmptyDict]

-----------------------------------------------------------------------------
(* Snapshot fetcher *)

\* response.json() for status 200, None otherwise
MakeRequest(status_code, body) ==
    IF status_code = 200 THEN [ok |-> TRUE, tables |-> body] ELSE None

GetFplDataIgnoreStatus(status_code, body) == [ok |-> TRUE, tables |-> body]

\* get_fpl_data: one request; the tables of the response, or None
GetFplData(status_code, body) ==
    LET data == MakeRequest(status_code, body)
    IN  IF data.ok THEN data ELSE None

\* DataFrame.equals: same columns, same shape, equal cells in order
DataFrameEquals(a, b) ==
    /\ a.columns = b.columns
    /\ Len(a.rows) = Len(b.rows)
    /\ \A i \in 1..Len(a.rows) : \A c \in a.columns : a.rows[i][c] = b.rows[i][c]

\* Series.equals on one column of two frames
SeriesEquals(a, b, c) ==
    /\ Len(a.rows) = Len(b.rows)
    /\ \A i \in 1..Len(a.rows) : a.rows[i][c] = b.rows[i][c]

-----------------------------------------------------------------------------
(* Change detector: check_for_updates *)

StoreOp(op, t) == [op |-> op, table |-> t]

\* sqlite_master lookup of the table name
TableExists(db, t) == db[t].kind # "absent"

MissingTableVerdictFalse(t) == FALSE

\* the verdict of a table that does not exist in the database
MissingTableVerdict(t) == TRUE

GameWeeksVerdictRowCount(new_df, existing_df) ==
    Len(new_df.rows) # Len(existing_df.rows)

\* game_weeks: not new_df.equals(existing_df)
GameWeeksVerdict(new_df, existing_df) == ~DataFrameEquals(new_df, existing_df)

FootballPlayersVerdictWholeFrame(new_df, existing_df) ==
    ~DataFrameEquals(new_df, existing_df)

\* football_players: not new_df['total_points'].equals(existing_df['total_points'])
FootballPlayersVerdict(new_df, existing_df) ==
    ~SeriesEquals(new_df, existing_df, "total_points")

OtherTablesVerdictEquals(new_df, existing_df) ==
    ~DataFrameEquals(new_df, existing_df)

\* every other table: new_df.shape[0] != existing_df.shape[0]
OtherTablesVerdict(new_df, existing_df) ==
    Len(new_df.rows) # Len(existing_df.rows)

\* new_df['total_points'] or existing_df['total_points'] raises KeyError
ComparisonRaises(t, new_df, existing_df) ==
    /\ t = "football_players"
    /\ \/ "total_points" \notin new_df.columns
       \/ "total_points" \notin existing_df.columns

TableVerdict(t, new_df, existing_df) ==
    IF t = "game_weeks" THEN GameWeeksVerdict(new_df, existing_df)
    ELSE IF t = "football_players" THEN FootballPlayersVerdict(new_df, existing_df)
    ELSE OtherTablesVerdict(new_df, existing_df)

\* The for loop over api_data.items(), from its i-th table on.  It ends
\* normally after the last table, or at the first statement that raises.
RECURSIVE TableLoop(_, _, _, _, _)
TableLoop(i, api_data, db, updates_needed, log) ==
    IF i > Len(TableOrder)
    THEN [updates_needed |-> updates_needed, log |-> log, error |-> "none"]
    ELSE LET t == TableOrder[i]
             new_df == api_data.tables[t]
             log1 == Append(log, StoreOp("table_exists", t))
             log2 == Append(log1, StoreOp("read_table", t))
         IN  IF ~TableExists(db, t)
             THEN TableLoop(i + 1, api_data, db,
                            updates_needed @@ (t :> MissingTableVerdict(t)), log1)
             ELSE IF db[t].kind # "table"
             THEN [updates_needed |-> updates_needed, log |-> log2,
                   error |-> "DatabaseError"]
             ELSE IF ComparisonRaises(t, new_df, db[t].df)
             THEN [updates_needed |-> updates_needed, log |-> log2,
                   error |-> "KeyError"]
             ELSE TableLoop(i + 1, api_data, db,
                            updates_needed @@ (t :> TableVerdict(t, new_df, db[t].df)),
                            log2)

ExceptResultPartial(updates_needed) == updates_needed

\* the except branch: return {}
ExceptResult(updates_needed) == EmptyDict

\* check_for_updates on a receiver; connect_ok and status_code are what the
\* database and the remote source answer during the call.  The result
\* carries the returned dict, the local updates_needed at the exit, the
\* store and fetch operations in order, and the exception caught, if any.
CheckForUpdates(has_helpers, connect_ok, status_code, body, db) ==
    LET opened == <<StoreOp("connect", "")>>
        fetched == Append(opened, StoreOp("get_fpl_data", ""))
        api_data == GetFplData(status_code, body)
        loop == TableLoop(1, api_data, db, EmptyDict, fetched)
    IN  IF ~connect_ok
        THEN [result |-> ExceptResult(EmptyDict), updates_needed |-> EmptyDict,
              log |-> opened, error |-> "OperationalError"]
        ELSE IF ~has_helpers
        THEN [result |-> ExceptResult(EmptyDict), updates_needed |-> EmptyDict,
              log |-> opened, error |-> "AttributeError"]
        ELSE IF ~api_data.ok
        THEN [result |-> EmptyDict, updates_needed |-> EmptyDict,
              log |-> fetched, error |-> "none"]
        ELSE IF loop.error # "none"
        THEN [result |-> ExceptResult(loop.updates_needed),
              updates_needed |-> loop.updates_needed,
              log |-> loop.log, error |-> loop.error]
        ELSE [result |-> loop.updates_needed, updates_needed |-> loop.updates_needed,
              log |-> loop.log, error |-> "none"]

-----------------------------------------------------------------------------
(* Sync orchestrator: sync_database *)

\* specific_tables: None, or a list of table names
NoFilter == [given |-> FALSE, tables |-> <<>>]
ListFilter(tables) == [given |-> TRUE, tables |-> tables]

\* "specific_tables if specific_tables else ...": None and [] are both falsy
Truthy(specific_tables) == specific_tables.given /\ Len(specific_tables.tables) > 0

SaveToDatabaseEnabled(update_dict, db) ==
    [db |-> [t \in DOMAIN db |->
                IF t \in DOMAIN update_dict THEN TableEntry(update_dict[t]) ELSE db[t]],
     writes |-> Keys(update_dict)]

\* "#self.save_to_database(update_dict, verbose=True)": the call is a comment,
\* and so is the definition of save_to_database: nothing is written.
SaveToDatabase(update_dict, db) == [db |-> db, writes |-> <<>>]

\* sync_database on a receiver.  responses are the status codes of the
\* requests made, in order; writes are the tables replaced, in order.
SyncDatabase(has_helpers, specific_tables, connect_ok, status1, status2, body, db) ==
    LET check == CheckForUpdates(has_helpers, connect_ok, status1, body, db)
        updates == check.result
        first == IF Len(check.log) > 1 THEN <<status1>> ELSE <<>>
        tables_to_update ==
            IF Truthy(specific_tables) THEN specific_tables.tables ELSE Keys(updates)
        tables_needing_update ==
            SelectSeq(tables_to_update, LAMBDA t : Get(updates, t, FALSE))
        new_data == GetFplData(status2, body)
        update_dict == [t \in Range(tables_needing_update) |-> new_data.tables[t]]
        saved == SaveToDatabase(update_dict, db)
    IN  IF updates = EmptyDict
        THEN [check |-> check, responses |-> first, tables_needing_update |-> <<>>,
              db |-> db, writes |-> <<>>]
        ELSE IF tables_needing_update = <<>>
        THEN [check |-> check, responses |-> first, tables_needing_update |-> <<>>,
              db |-> db, writes |-> <<>>]
        ELSE IF ~new_data.ok
        THEN [check |-> check, responses |-> <<status1, status2>>,
              tables_needing_update |-> tables_needing_update,
              db |-> db, writes |-> <<>>]
        ELSE [check |-> check, responses |-> <<status1, status2>>,
              tables_needing_update |-> tables_needing_update,
              db |-> saved.db, writes |-> saved.writes]

-----------------------------------------------------------------------------
(* Construction: __init__ and _get_current_gameweek *)

\* The lines of __init__ at which its nested functions are bound.
InitLocalDefs ==
    [_make_request |-> 19, _get_current_gameweek |-> 27, get_fpl_data |-> 34]

\* A local name of __init__ is bound at a line only after its def has run.
BoundAt(name, line) == InitLocalDefs[name] < line

\* _get_current_gameweek: id of the first row with is_current, through
\* .iloc[0], which raises IndexError on an empty selection
GetCurrentGameweek(main_data) ==
    IF main_data.ok
    THEN LET game_weeks_df == main_data.tables["game_weeks"]
             current == SelectSeq(game_weeks_df.rows, LAMBDA r : r.is_current)
         IN  IF current = <<>>
             THEN [error |-> "IndexError", value |-> 0]
             ELSE [error |-> "none", value |-> current[1].id]
    ELSE [error |-> "none", value |-> 0]

\* __init__: "self.main_data = get_fpl_data()" reads the local name
\* get_fpl_data at line 16, before the def at line 34 binds it.
Construct(has_helpers, status_code, body) ==
    IF ~BoundAt("get_fpl_data", 16)
    THEN [error |-> "UnboundLocalError", responses |-> <<>>, current_gameweek |-> 0]
    ELSE IF ~has_helpers
    THEN [error |-> "AttributeError", responses |-> <<status_code>>,
          current_gameweek |-> 0]
    ELSE LET gw == GetCurrentGameweek(GetFplData(status_code, body))
         IN  [error |-> gw.error, responses |-> <<status_code>>,
              current_gameweek |-> gw.value]

-----------------------------------------------------------------------------
(* State machine *)

\* What can go wrong in the environment during one call: nothing, the
\* database cannot be opened, the first request fails, the second one fails.
Faults == {"none", "connect", "fetch", "refetch"}

ConnectOk(fault) == fault # "connect"
FirstStatus(fault) == IF fault = "fetch" THEN 503 ELSE 200
SecondStatus(fault) == IF fault = "refetch" THEN 503 ELSE 200

\* The arguments sync_database is called with.
Filters ==
    {NoFilter, ListFilter(<<>>), ListFilter(<<"game_weeks", "chips">>),
     ListFilter(<<"football_teams", "standings">>)}

\* No call has returned since the environment last changed.
NoCall ==
    [op |-> "none", specific_tables |-> NoFilter, responses |-> <<>>,
     result |-> EmptyDict, updates_needed |-> EmptyDict, log |-> <<>>,
     error |-> "none", tables_needing_update |-> <<>>, writes |-> <<>>,
     repeat |-> FALSE, current_gameweek |-> 0]

\* The remote source numbers the rows of a table 1, 2, ... in order.
WellFormed(df) == \A i \in 1..Len(df.rows) : df.rows[i].id = i

RemoteFrames(t) == {df \in Frames(t) : WellFormed(df)}

\* The store entry of a table nobody looks at closely: missing, or a copy
\* of the remote baseline.
BaseEntry(base, t) == IF base = "absent" THEN AbsentEntry ELSE TableEntry(Baseline(t))

\* A persisted table with the baseline's columns and no rows.
Stale(t) == [columns |-> Baseline(t).columns, rows |-> <<>>]

CoarseEntries(t) ==
    {AbsentEntry, MalformedEntry, TableEntry(Baseline(t)), TableEntry(Stale(t))}

\* One table f has the remote content new_df and the store entry "entry";
\* every other table has the baseline remotely and the same kind of entry
\* in the store.
World(f, base, new_df, entry) ==
    /\ remote = [t \in TableNames |-> IF t = f THEN new_df ELSE Baseline(t)]
    /\ store = [t \in TableNames |-> IF t = f THEN entry ELSE BaseEntry(base, t)]
    /\ self_has_helpers \in BOOLEAN
    /\ last = NoCall

\* Start of the orchestrator's runs: the remote baseline, and a store in
\* which one table is missing, unreadable, current or stale.
Init ==
    \E f \in TableNames, base \in {"absent", "same"} :
        \E entry \in CoarseEntries(f) : World(f, base, Baseline(f), entry)

\* Start of the detector's runs: one table with any remote content and any
\* persisted content.
InitDetector ==
    \E f \in TableNames, base \in {"absent", "same"} :
        \E new_df \in RemoteFrames(f), entry \in StoreEntries(f) :
            World(f, base, new_df, entry)

\* obj = FPLDataCollection()
CallInit ==
    \E fault \in {"none", "fetch"} :
        \E r \in {Construct(self_has_helpers, FirstStatus(fault), remote)} :
            /\ last' = [NoCall EXCEPT !.op = "__init__", !.error = r.error,
                                      !.responses = r.responses,
                                      !.current_gameweek = r.current_gameweek]
            /\ UNCHANGED <<remote, store, self_has_helpers>>

\* obj.check_for_updates()
CallCheckForUpdates ==
    \E fault \in {"none", "connect", "fetch"} :
        \E r \in {CheckForUpdates(self_has_helpers, ConnectOk(fault),
                                    FirstStatus(fault), remote, store)} :
            /\ last' = [NoCall EXCEPT !.op = "check_for_updates",
                                      !.responses = IF Len(r.log) > 1
                                                    THEN <<FirstStatus(fault)>>
                                                    ELSE <<>>,
                                      !.result = r.result,
                                      !.updates_needed = r.updates_needed,
                                      !.log = r.log, !.error = r.error]
            /\ UNCHANGED <<remote, store, self_has_helpers>>

\* obj.sync_database(specific_tables)
CallSyncDatabase ==
    \E specific_tables \in Filters, fault \in Faults :
        \E r \in {SyncDatabase(self_has_helpers, specific_tables, ConnectOk(fault),
                                 FirstStatus(fault), SecondStatus(fault), remote, store)} :
            /\ last' = [NoCall EXCEPT !.op = "sync_database",
                                      !.specific_tables = specific_tables,
                                      !.responses = r.responses,
                                      !.result = r.check.result,
                                      !.updates_needed = r.check.updates_needed,
                                      !.log = r.check.log, !.error = r.check.error,
                                      !.tables_needing_update = r.tables_needing_update,
                                      !.writes = r.writes,
                                      !.repeat = /\ last.op = "sync_database"
                                                 /\ last.specific_tables = specific_tables]
            /\ store' = r.db
            /\ UNCHANGED <<remote, self_has_helpers>>

RowSet(columns) ==
    IF "is_current" \in columns THEN [id : Ids, is_current : BOOLEAN]
    ELSE IF "total_points" \in columns THEN [id : Ids, total_points : PointVals]
    ELSE [id : Ids]

\* The remote source publishes new data for the one table that differs from
\* the baseline (any table, if none does): a row is added or the last row is
\* withdrawn.
RemotePublish ==
    \E t \in TableNames :
        /\ last.op # "none"
        /\ \A u \in TableNames \ {t} :
              remote[u] = Baseline(u) /\ store[u] \in {AbsentEntry, TableEntry(Baseline(u))}
        /\ \/ /\ Len(remote[t].rows) < MaxRows
              /\ \E r \in RowSet(remote[t].columns) :
                    /\ r.id = Len(remote[t].rows) + 1
                    /\ remote' = [remote EXCEPT ![t].rows = Append(@, r)]
           \/ /\ remote[t].rows # <<>>
              /\ remote' = [remote EXCEPT ![t].rows = SubSeq(@, 1, Len(@) - 1)]
        /\ last' = NoCall
        /\ UNCHANGED <<store, self_has_helpers>>

Next ==
    \/ CallInit
    \/ CallCheckForUpdates
    \/ CallSyncDatabase
    \/ RemotePublish

Spec == Init /\ [][Next]_vars

NextDetector ==
    \/ CallCheckForUpdates
    \/ RemotePublish

SpecDetector == InitDetector /\ [][NextDetector]_vars

-----------------------------------------------------------------------------
(* Properties of the change detector, checked under SpecDetector *)

Checked == last.op = "check_for_updates"

\* The call went through the whole loop and returned its verdicts.
Completed == Checked /\ last.error = "none" /\ last.responses = <<200>>

\* The loop gave table t a verdict before the call ended.
Judged(t) == Checked /\ t \in DOMAIN last.updates_needed

Persisted(t) == store[t].kind = "table"

ExistenceChecked(t) ==
    \E i \in 1..Len(last.log) : last.log[i] = StoreOp("table_exists", t)

\* C2: every table of the fetched set that does not exist in the store gets
\* the verdict true, whichever table it is and whatever the fetched table
\* holds; a call that runs to its end returns that verdict.
C2_MissingTableVerdictTrue ==
    Checked =>
        \A t \in TableNames :
            store[t].kind = "absent" =>
                /\ ExistenceChecked(t) => Judged(t) /\ last.updates_needed[t] = TRUE
                /\ Completed => t \in DOMAIN last.result /\ last.result[t] = TRUE

\* C2 witness: game_weeks and chips are both missing from the store, the
\* fetched game_weeks table is empty, and both verdicts are true.
C2_Witness ==
    /\ Completed
    /\ store["game_weeks"].kind = "absent" /\ store["chips"].kind = "absent"
    /\ remote["game_weeks"].rows = <<>>
    /\ last.result["game_weeks"] /\ last.result["chips"]

\* Some step of the per-table loop raises: a table that cannot be read, or
\* a football_players table without the total_points column on either side.
StepFails ==
    \E t \in TableNames :
        \/ store[t].kind = "malformed"
        \/ /\ t = "football_players"
           /\ Persisted(t)
           /\ \/ "total_points" \notin remote[t].columns
              \/ "total_points" \notin store[t].df.columns

\* C3: when any step of check_for_updates fails, the call returns the empty
\* dict, never the verdicts computed before the failure.
C3_FailureReturnsEmpty ==
    Checked /\ (StepFails \/ last.error # "none" \/ last.responses # <<200>>)
        => last.result = EmptyDict

\* C3 witness: a step failed after earlier tables had received a verdict.
C3_Witness ==
    /\ Checked /\ StepFails
    /\ last.updates_needed # EmptyDict
    /\ last.result = EmptyDict

\* C5: for a persisted game_weeks table the verdict is true exactly when
\* the fetched table is not identical to the persisted one, cell by cell and
\* in order.
C5_GameWeeksVerdict ==
    /\ Judged("game_weeks") /\ Persisted("game_weeks") =>
          (last.updates_needed["game_weeks"]
              <=> remote["game_weeks"] # store["game_weeks"].df)
    /\ Completed => last.result = last.updates_needed

\* C5 witness: the persisted game_weeks holds the fetched rows in the other
\* order, and the verdict is true.
C5_Witness ==
    /\ Completed /\ Persisted("game_weeks")
    /\ Len(remote["game_weeks"].rows) = 2
    /\ store["game_weeks"].df.rows =
          <<remote["game_weeks"].rows[2], remote["game_weeks"].rows[1]>>
    /\ remote["game_weeks"].rows[1] # remote["game_weeks"].rows[2]
    /\ last.result["game_weeks"] = TRUE

\* The total_points columns differ: in length, or at some position.
PointsDiffer(a, b) ==
    \/ Len(a.rows) # Len(b.rows)
    \/ \E i \in 1..Len(a.rows) : a.rows[i].total_points # b.rows[i].total_points

\* C6: for a persisted football_players table the verdict is true exactly
\* when the total_points column differs by position; a change in another
\* column with the same row count gives false.
C6_FootballPlayersVerdict ==
    /\ Judged("football_players") /\ Persisted("football_players") =>
          (last.updates_needed["football_players"]
              <=> PointsDiffer(remote["football_players"], store["football_players"].df))
    /\ Completed => last.result = last.updates_needed

\* C6 witness: same row count, same total_points, a different id in some
\* row, and the verdict is false.
C6_Witness ==
    /\ Completed /\ Persisted("football_players")
    /\ Len(remote["football_players"].rows) = Len(store["football_players"].df.rows)
    /\ \E i \in 1..Len(remote["football_players"].rows) :
          remote["football_players"].rows[i].id # store["football_players"].df.rows[i].id
    /\ last.result["football_players"] = FALSE

OtherTables == TableNames \ {"game_weeks", "football_players"}

\* C7: for every other persisted table the verdict is true exactly when the
\* row counts differ; a changed value with the same row count gives false.
C7_OtherTablesVerdict ==
    /\ \A t \in OtherTables :
          Judged(t) /\ Persisted(t) =>
              (last.updates_needed[t] <=> Len(remote[t].rows) # Len(store[t].df.rows))
    /\ Completed => last.result = last.updates_needed

\* C7 witness: football_teams has as many rows as persisted, one row has
\* other points, and the verdict is false.
C7_Witness ==
    /\ Completed /\ Persisted("football_teams")
    /\ Len(remote["football_teams"].rows) = MaxRows
    /\ Len(store["football_teams"].df.rows) = MaxRows
    /\ \E i \in 1..MaxRows :
          remote["football_teams"].rows[i].total_points
              # store["football_teams"].df.rows[i].total_points
    /\ last.result["football_teams"] = FALSE

\* The request of the main dataset was made and answered with a failure.
FetchFailed == Checked /\ last.responses = <<503>>

IsStoreOp(e) == e.op \in {"connect", "table_exists", "read_table"}

\* C9 as claimed: when the fetch fails, the call returns the empty dict and
\* no store operation, opening the connection included, happens before or
\* after the fetch.
C9_NoStoreOperation ==
    FetchFailed =>
        /\ last.result = EmptyDict
        /\ \A i \in 1..Len(last.log) : ~IsStoreOp(last.log[i])

\* C9 amended: when the fetch fails, the call returns the empty dict; the
\* connection was opened before the fetch, and no existence check and no
\* table read happens before or after it.
C9_OnlyConnectBeforeFetch ==
    FetchFailed =>
        /\ last.result = EmptyDict
        /\ last.log = <<StoreOp("connect", ""), StoreOp("get_fpl_data", "")>>

\* C9 witness: the fetch failed while the store held a readable table.
C9_Witness ==
    /\ FetchFailed
    /\ \E t \in TableNames : Persisted(t)

-----------------------------------------------------------------------------
(* Properties of the orchestrator and the constructor, checked under Spec *)

Synced == last.op = "sync_database"

Selected == Range(last.tables_needing_update)

\* C1 as claimed: after a sync in which both fetches succeed, every table
\* selected for update holds exactly the rows of the re-fetched table.
C1_ReplacedWholesale ==
    Synced /\ last.responses = <<200, 200>> =>
        \A t \in Selected : store[t] = TableEntry(remote[t])

C8_CurrentGameweekOrZero ==
    last.op = "__init__" =>
        /\ last.error = "none"
        /\ LET rows == remote["game_weeks"].rows
               current == SelectSeq(rows, LAMBDA r : r.is_current)
           IN  \/ last.current_gameweek = 0
               \/ current # <<>> /\ last.current_gameweek = current[1].id

\* The tables C10 says sync selects.
Expected ==
    IF last.specific_tables.given
    THEN {t \in Range(last.specific_tables.tables) : Get(last.result, t, FALSE)}
    ELSE {t \in DOMAIN last.result : last.result[t]}

\* C10 as claimed: sync selects exactly the tables of the given filter (an
\* empty one included) whose verdict is true, all tables with a true verdict
\* when no filter is given; when that set is empty it makes no second fetch
\* and replaces nothing.
C10_SelectsFilteredVerdicts ==
    Synced =>
        /\ Selected = Expected
        /\ Expected = {} => Len(last.responses) <= 1 /\ last.writes = <<>>

====
